---- MODULE Spec2Model ----
(***************************************************************************)
(* Model of ml-models/scripts/model_loader.py: the ModelLoader registry    *)
(* (loaded_models, configs), its framework adapters, the files it reads    *)
(* and the process environment it writes.                                  *)
(***************************************************************************)
EXTENDS Integers, Sequences, FiniteSets, TLC

VARIABLES
    loaded_models,          \* self.loaded_models: dict name -> handle
    configs,                \* self.configs: dict name -> descriptor
    fs_config,              \* <models_dir>/<name>/model_config.json, where present
    fs_artifact,            \* state of the artifact file of each model directory
    installed,              \* the runtimes `import` finds in this process
    CUDA_VISIBLE_DEVICES,   \* os.environ["CUDA_VISIBLE_DEVICES"]
    next_id,                \* identity of the next object an adapter creates
    call,                   \* the most recent call of the public surface
    history                 \* per name, what the calls so far returned

vars == <<loaded_models, configs, fs_config, fs_artifact, installed,
          CUDA_VISIBLE_DEVICES, next_id, call, history>>

----------------------------------------------------------------------------
(* Bounds and input sets *)

MaxHandles == 2

Names == {"eye-correction"}

Devices == {"cuda", "cpu"}

Runtimes == {"torch", "onnxruntime"}

ArtifactStates == {"missing", "ok", "corrupt"}

NoKey == "<no key>"

FrameworkValues == {"tensorflow", "pytorch", "onnx", "unknown", NoKey}

\* A parsed model_config.json: the value of "framework" (NoKey when the key is
\* absent), whether "model_files" is a key, whether keys the loader never reads
\* (model_name, version, training, ...) are there, and the keys of the tensor
\* pipeline, each <<>> when absent: input_shape, output_shape,
\* preprocessing.normalize (absent reads as false), preprocessing.mean,
\* preprocessing.std, hyperparameters.segmentation_threshold (<<t>> when set).
\* Numbers that are not dimensions are in tenths: 5 is 0.5.
Descriptor(framework, model_files, other_keys, input_shape, output_shape, normalize, mean, std, threshold) ==
    [framework |-> framework, model_files |-> model_files,
     other_keys |-> other_keys, input_shape |-> input_shape,
     output_shape |-> output_shape, normalize |-> normalize, mean |-> mean,
     std |-> std, threshold |-> threshold]

\* `{}`, the JSON object with no keys
EmptyDict == Descriptor(NoKey, FALSE, FALSE, <<>>, <<>>, FALSE, <<>>, <<>>, <<>>)

\* The shape the descriptors of Spec declare for input and output
UnitShape == <<1, 1, 1, 3>>

\* The descriptors of Spec: every framework value, with and without
\* model_files, one declared shape, no preprocessing; and `{}`.
Descriptors ==
    {Descriptor(f, mf, TRUE, UnitShape, UnitShape, FALSE, <<>>, <<>>, <<>>) :
        f \in FrameworkValues, mf \in BOOLEAN} \cup {EmptyDict}

\* Python's None
None == [kind |-> "none", framework |-> "none", id |-> 0]

NoValue == [kind |-> "novalue"]

----------------------------------------------------------------------------
(* dict helpers *)

DictSet(d, k, v) == [x \in DOMAIN d \cup {k} |-> IF x = k THEN v ELSE d[x]]

DictDel(d, k) == [x \in DOMAIN d \ {k} |-> d[x]]

DictGet(d, k, default) == IF k \in DOMAIN d THEN d[k] ELSE default

\* Python truth value of a handle or of a descriptor (`if not x`)
Truthy(v) == v # None /\ v # EmptyDict

----------------------------------------------------------------------------
(* Tensors: a shape and the elements in row-major order, in tenths *)

Tensor(shape, data) == [shape |-> shape, data |-> data]

Rank(t) == Len(t.shape)

RECURSIVE Size(_)
Size(shape) == IF shape = <<>> THEN 1 ELSE Head(shape) * Size(Tail(shape))

Filled(shape, v) == Tensor(shape, [i \in 1..Size(shape) |-> v])

Replicate(n, v) == [i \in 1..n |-> v]

\* numpy's `x op vec` for a vector vec: vec runs along the last axis of x; an
\* axis of length 1 stretches to the other's length; any other mismatch raises.
Minus(a, b) == a - b

\* a / b on tenths; the divisors of the model (5 and 10) divide exactly
Over(a, b) == (a * 10) \div b

\* The two elementwise operators of `(input_data - mean) / std`
Elementwise(op, a, b) == IF op = "-" THEN Minus(a, b) ELSE Over(a, b)

Broadcast(x, vec, op) ==
    LET r == Rank(x)
        c == x.shape[r]
        l == Len(vec) IN
    IF l = c \/ l = 1
    THEN [exc |-> "ok",
          tensor |-> Tensor(x.shape,
                [i \in 1..Len(x.data) |->
                    Elementwise(op, x.data[i],
                        vec[IF l = 1 THEN 1 ELSE ((i - 1) % c) + 1])])]
    ELSE IF c = 1
    THEN [exc |-> "ok",
          tensor |-> Tensor([x.shape EXCEPT ![r] = l],
                [j \in 1..(Len(x.data) * l) |->
                    Elementwise(op, x.data[((j - 1) \div l) + 1],
                        vec[((j - 1) % l) + 1])])]
    ELSE [exc |-> "ValueError: operands could not be broadcast", tensor |-> x]

\* np.expand_dims(input_data, axis=0)
expand_dims(x) == Tensor(<<1>> \o x.shape, x.data)

\* output_data[0] of a tensor whose first axis has length 1
First(y) == Tensor(Tail(y.shape), y.data)

\* Binarize with `>=` for `>`
Binarize_ge(v, t) == IF v >= t THEN 10 ELSE 0

\* (v > threshold).astype(np.float32): 1.0 or 0.0
Binarize(v, t) == IF v > t THEN 10 ELSE 0

----------------------------------------------------------------------------
(* Framework adapters.  Each returns what the adapter raises (or "ok"), the *)
(* model it returns, the value it leaves in CUDA_VISIBLE_DEVICES and the    *)
(* file-system steps it took.                                               *)

\* config.get("input_shape", [1, 224, 224, 3]), the same for output_shape
DefaultShape == <<1, 224, 224, 3>>

ShapeOr(shape, default) == IF shape = <<>> THEN default ELSE shape

\* A handle carries the per-sample shapes it accepts and produces.  The
\* placeholder is one Conv2D with padding "same" over Input(input_shape[1:]):
\* it keeps height and width and produces output_shape[-1] channels.
_create_placeholder_model(config) ==
    LET input_shape == Tail(ShapeOr(config.input_shape, DefaultShape))
        output_shape == Tail(ShapeOr(config.output_shape, DefaultShape)) IN
    [kind |-> "placeholder", framework |-> "tensorflow", id |-> next_id,
     input_shape |-> input_shape,
     output_shape |-> <<input_shape[1], input_shape[2],
                        output_shape[Len(output_shape)]>>]

\* The model a present, readable artifact holds: it has the shapes its
\* descriptor declares.
Genuine(framework, config) ==
    [kind |-> "genuine", framework |-> framework, id |-> next_id,
     input_shape |-> Tail(ShapeOr(config.input_shape, DefaultShape)),
     output_shape |-> Tail(ShapeOr(config.output_shape, DefaultShape))]

\* A device configuration that lifts the restriction for "cuda"
ConfigureDevice_reset(device) ==
    IF device = "cuda" THEN "unset" ELSE "-1"

\* os.environ after the device configuration of the TensorFlow adapter
ConfigureDevice(device) ==
    IF device = "cuda" THEN CUDA_VISIBLE_DEVICES ELSE "-1"

_load_tensorflow_model(name, config, device) ==
    IF ~config.model_files
    THEN [exc |-> "KeyError", model |-> None, cuda |-> CUDA_VISIBLE_DEVICES,
          steps |-> <<>>]
    ELSE LET cuda == ConfigureDevice(device) IN
         CASE fs_artifact[name] = "missing" ->
                [exc |-> "ok", model |-> _create_placeholder_model(config),
                 cuda |-> cuda, steps |-> <<"exists", "placeholder">>]
           [] fs_artifact[name] = "ok" ->
                [exc |-> "ok", model |-> Genuine("tensorflow", config),
                 cuda |-> cuda, steps |-> <<"exists", "load_artifact">>]
           [] fs_artifact[name] = "corrupt" ->
                [exc |-> "ok", model |-> _create_placeholder_model(config),
                 cuda |-> cuda,
                 steps |-> <<"exists", "load_artifact", "placeholder">>]

NativeLoad(name, config, runtime, framework) ==
    IF runtime \notin installed
    THEN [exc |-> "ImportError", model |-> None, cuda |-> CUDA_VISIBLE_DEVICES,
          steps |-> <<>>]
    ELSE IF ~config.model_files
    THEN [exc |-> "KeyError", model |-> None, cuda |-> CUDA_VISIBLE_DEVICES,
          steps |-> <<>>]
    ELSE CASE fs_artifact[name] = "missing" ->
                [exc |-> "ok", model |-> None, cuda |-> CUDA_VISIBLE_DEVICES,
                 steps |-> <<"exists">>]
           [] fs_artifact[name] = "ok" ->
                [exc |-> "ok", model |-> Genuine(framework, config),
                 cuda |-> CUDA_VISIBLE_DEVICES,
                 steps |-> <<"exists", "load_artifact">>]
           [] fs_artifact[name] = "corrupt" ->
                [exc |-> "ArtifactLoadError", model |-> None,
                 cuda |-> CUDA_VISIBLE_DEVICES,
                 steps |-> <<"exists", "load_artifact">>]

_load_pytorch_model(name, config, device) ==
    NativeLoad(name, config, "torch", "pytorch")

_load_onnx_model(name, config) ==
    NativeLoad(name, config, "onnxruntime", "onnx")

\* config.get("framework", "tensorflow")
Framework(config) ==
    IF config.framework = NoKey THEN "tensorflow" ELSE config.framework

Dispatch(name, config, device) ==
    CASE Framework(config) = "tensorflow" ->
            LET r == _load_tensorflow_model(name, config, device) IN
            [r EXCEPT !.steps = <<"adapter_tensorflow">> \o @]
      [] Framework(config) = "pytorch" ->
            LET r == _load_pytorch_model(name, config, device) IN
            [r EXCEPT !.steps = <<"adapter_pytorch">> \o @]
      [] Framework(config) = "onnx" ->
            LET r == _load_onnx_model(name, config) IN
            [r EXCEPT !.steps = <<"adapter_onnx">> \o @]
      [] OTHER ->
            [exc |-> "ValueError: Unsupported framework", model |-> None,
             cuda |-> CUDA_VISIBLE_DEVICES, steps |-> <<>>]

----------------------------------------------------------------------------
(* The public surface *)

\* A call: the method, the name passed, what it raised, what it returned and
\* the steps it took; for the tensor methods also the arguments, the tensor
\* the handle was given (fed) and the tensor it produced (raw).
Call(op, name, outcome, ret, steps) ==
    [op |-> op, name |-> name, outcome |-> outcome, ret |-> ret, steps |-> steps,
     args |-> NoValue, fed |-> NoValue, raw |-> NoValue]

\* The observer of the calls.  For each name: "never" while no load_model of
\* it has returned, "loaded" from a load_model that returned until the next
\* unload_model, "unloaded" from then until the next load_model that returns;
\* handle is what that load_model returned, dropped the handle returned by
\* the load_model before the most recent unload_model.
Track ==
    history' =
        [n \in DOMAIN history |->
            IF call'.name # n THEN history[n]
            ELSE IF call'.op = "load_model" /\ call'.outcome = "ok"
            THEN [status |-> "loaded", handle |-> call'.ret, dropped |-> NoValue]
            ELSE IF call'.op = "unload_model" /\ history[n].status = "loaded"
            THEN [status |-> "unloaded", handle |-> NoValue,
                  dropped |-> history[n].handle]
            ELSE history[n]]

\* IsCached as `if self.loaded_models.get(model_name):` would decide it
IsCached_truthy(name) == Truthy(DictGet(loaded_models, name, None))

\* IsCached that takes a cached None for no entry
IsCached_handle(name) ==
    name \in DOMAIN loaded_models /\ loaded_models[name] # None

\* `model_name in self.loaded_models`
IsCached(name) == name \in DOMAIN loaded_models

\* open_config with an absent file read as the empty configuration
open_config_default(name) ==
    IF name \in DOMAIN fs_config
    THEN [exc |-> "ok", config |-> fs_config[name]]
    ELSE [exc |-> "ok", config |-> EmptyDict]

\* open(config_path) and json.load
open_config(name) ==
    IF name \in DOMAIN fs_config
    THEN [exc |-> "ok", config |-> fs_config[name]]
    ELSE [exc |-> "FileNotFoundError", config |-> NoValue]

\* A load_model that keeps the parsed configuration to itself
StoreConfig_skip(name, config) == configs

\* The configuration is stored as soon as it is parsed, before the dispatch.
StoreConfig(name, config) == DictSet(configs, name, config)

\* The record of a load_model call: the device asked for is its argument.
LoadCall(name, device, outcome, ret, steps) ==
    [Call("load_model", name, outcome, ret, steps)
        EXCEPT !.args = [device |-> device]]

load_model(name, device) ==
    IF IsCached(name)
    THEN /\ call' = LoadCall(name, device, "ok", loaded_models[name], <<>>)
         /\ UNCHANGED <<loaded_models, configs, CUDA_VISIBLE_DEVICES, next_id>>
    ELSE IF open_config(name).exc # "ok"
    THEN /\ call' = LoadCall(name, device, open_config(name).exc, NoValue,
                         <<"open_config">>)
         /\ UNCHANGED <<loaded_models, configs, CUDA_VISIBLE_DEVICES, next_id>>
    ELSE LET config == open_config(name).config
             r == Dispatch(name, config, device) IN
         /\ configs' = StoreConfig(name, config)
         /\ CUDA_VISIBLE_DEVICES' = r.cuda
         /\ IF r.exc = "ok"
            THEN /\ r.model # None => next_id <= MaxHandles
                 /\ loaded_models' = DictSet(loaded_models, name, r.model)
                 /\ next_id' = IF r.model # None THEN next_id + 1 ELSE next_id
                 /\ call' = LoadCall(name, device, "ok", r.model,
                                 <<"open_config">> \o r.steps)
            ELSE /\ call' = LoadCall(name, device, r.exc, NoValue,
                                 <<"open_config">> \o r.steps)
                 /\ UNCHANGED <<loaded_models, next_id>>

LoadModel(name, device) ==
    /\ load_model(name, device)
    /\ UNCHANGED <<fs_config, fs_artifact, installed>>
    /\ Track

\* model.predict(input_data).  A Keras model takes a batch of samples of its
\* input shape and returns as many samples of its output shape; v stands for
\* the values the network computes.  A torch module and an onnxruntime
\* session have no predict method.
Invoke(model, x, v) ==
    IF model.framework # "tensorflow"
    THEN [exc |-> "AttributeError", tensor |-> NoValue]
    ELSE IF Rank(x) # 4 \/ Tail(x.shape) # model.input_shape
    THEN [exc |-> "ValueError: incompatible shape", tensor |-> NoValue]
    ELSE [exc |-> "ok",
          tensor |-> Filled(<<x.shape[1]>> \o model.output_shape, v)]

\* What the configuration check of preprocess_input and postprocess_output
\* raises
StageOutcome(name) ==
    IF Truthy(DictGet(configs, name, None)) THEN "ok"
    ELSE "ValueError: not loaded"

DefaultMean == <<5, 5, 5>>

DefaultStd == <<5, 5, 5>>

\* input_data = (input_data - mean) / std
Normalize(config, x) ==
    LET mean == ShapeOr(config.mean, DefaultMean)
        std == ShapeOr(config.std, DefaultStd)
        d == Broadcast(x, mean, "-") IN
    IF d.exc # "ok" THEN d ELSE Broadcast(d.tensor, std, "/")

\* Batch insertion at rank 3 and above
LacksBatch_from3(x) == Rank(x) >= 3

\* `len(input_data.shape) == 3`
LacksBatch(x) == Rank(x) = 3

\* The resize step assigns target_size and leaves input_data as it is.
preprocess_input(name, x) ==
    IF StageOutcome(name) # "ok"
    THEN [outcome |-> StageOutcome(name), tensor |-> NoValue]
    ELSE LET config == configs[name]
             n == IF config.normalize THEN Normalize(config, x)
                  ELSE [exc |-> "ok", tensor |-> x] IN
         IF n.exc # "ok" THEN [outcome |-> n.exc, tensor |-> NoValue]
         ELSE [outcome |-> "ok",
               tensor |-> IF LacksBatch(n.tensor) THEN expand_dims(n.tensor)
                          ELSE n.tensor]

\* A leading dimension of 1 at any rank
HasBatch_anyrank(y) == Rank(y) >= 1 /\ y.shape[1] = 1

\* `len(output_data.shape) == 4 and output_data.shape[0] == 1`
HasBatch(y) == Rank(y) = 4 /\ y.shape[1] = 1

postprocess_output(name, y) ==
    IF StageOutcome(name) # "ok"
    THEN [outcome |-> StageOutcome(name), tensor |-> NoValue]
    ELSE LET config == configs[name]
             o == IF HasBatch(y) THEN First(y) ELSE y IN
         [outcome |-> "ok",
          tensor |-> IF config.threshold # <<>>
                     THEN Tensor(o.shape,
                            [i \in 1..Len(o.data) |->
                                Binarize(o.data[i], config.threshold[1])])
                     ELSE o]

\* A predict that preprocesses whatever the flag says
PreStage_always(name, x, preprocess) == preprocess_input(name, x)

\* `if preprocess: input_data = self.preprocess_input(model_name, input_data)`
PreStage(name, x, preprocess) ==
    IF preprocess THEN preprocess_input(name, x)
    ELSE [outcome |-> "ok", tensor |-> x]

\* `if postprocess: output = self.postprocess_output(model_name, output)`
PostStage(name, y, postprocess) ==
    IF postprocess THEN postprocess_output(name, y)
    ELSE [outcome |-> "ok", tensor |-> y]

PredictResult(name, x, preprocess, postprocess, v) ==
    LET model == DictGet(loaded_models, name, None)
        fail(outcome, steps) ==
            [outcome |-> outcome, ret |-> NoValue, steps |-> steps,
             fed |-> NoValue, raw |-> NoValue]
        pre == PreStage(name, x, preprocess)
        presteps == IF preprocess THEN <<"preprocess">> ELSE <<>> IN
    IF ~Truthy(model) THEN fail("ValueError: not loaded", <<>>)
    ELSE IF pre.outcome # "ok" THEN fail(pre.outcome, presteps)
    ELSE LET out == Invoke(model, pre.tensor, v) IN
         IF out.exc # "ok"
         THEN [fail(out.exc, presteps \o <<"invoke">>) EXCEPT !.fed = pre.tensor]
         ELSE LET post == PostStage(name, out.tensor, postprocess) IN
              [outcome |-> post.outcome, ret |-> post.tensor,
               steps |-> presteps \o <<"invoke">> \o
                         (IF postprocess THEN <<"postprocess">> ELSE <<>>),
               fed |-> pre.tensor, raw |-> out.tensor]

Predict(name, x, preprocess, postprocess, v) ==
    \E r \in {PredictResult(name, x, preprocess, postprocess, v)} :
    /\ call' = [Call("predict", name, r.outcome, r.ret, r.steps) EXCEPT
                    !.args = [x |-> x, preprocess |-> preprocess,
                              postprocess |-> postprocess],
                    !.fed = r.fed, !.raw = r.raw]
    /\ UNCHANGED <<loaded_models, configs, fs_config, fs_artifact, installed,
                   CUDA_VISIBLE_DEVICES, next_id>>
    /\ Track

PreprocessInput(name, x) ==
    \E r \in {preprocess_input(name, x)} :
    /\ call' = [Call("preprocess_input", name, r.outcome, r.tensor, <<>>) EXCEPT
                    !.args = [x |-> x]]
    /\ UNCHANGED <<loaded_models, configs, fs_config, fs_artifact, installed,
                   CUDA_VISIBLE_DEVICES, next_id>>
    /\ Track

PostprocessOutput(name, y) ==
    \E r \in {postprocess_output(name, y)} :
    /\ call' = [Call("postprocess_output", name, r.outcome, r.tensor, <<>>) EXCEPT
                    !.args = [x |-> y]]
    /\ UNCHANGED <<loaded_models, configs, fs_config, fs_artifact, installed,
                   CUDA_VISIBLE_DEVICES, next_id>>
    /\ Track

\* unload_model emptying the whole cache (`self.loaded_models.clear()`)
unload_model_all(name) ==
    IF name \in DOMAIN loaded_models
    THEN loaded_models' = <<>>
    ELSE UNCHANGED loaded_models

unload_model(name) ==
    IF name \in DOMAIN loaded_models
    THEN loaded_models' = DictDel(loaded_models, name)
    ELSE UNCHANGED loaded_models

UnloadModel(name) ==
    /\ unload_model(name)
    /\ call' = Call("unload_model", name, "ok", NoValue, <<>>)
    /\ UNCHANGED <<configs, fs_config, fs_artifact, installed,
                   CUDA_VISIBLE_DEVICES, next_id>>
    /\ Track

get_model_info(name) == DictGet(configs, name, EmptyDict)

GetModelInfo(name) ==
    /\ call' = Call("get_model_info", name, "ok", get_model_info(name), <<>>)
    /\ UNCHANGED <<loaded_models, configs, fs_config, fs_artifact, installed,
                   CUDA_VISIBLE_DEVICES, next_id>>
    /\ Track

----------------------------------------------------------------------------
(* The environment: the files of the models directory change between calls *)

EnvCall == Call("<environment>", "", "ok", NoValue, <<>>)

WriteConfig(name, d) ==
    /\ DictGet(fs_config, name, NoValue) # d
    /\ fs_config' = DictSet(fs_config, name, d)
    /\ call' = EnvCall
    /\ UNCHANGED <<loaded_models, configs, fs_artifact, installed,
                   CUDA_VISIBLE_DEVICES, next_id>>
    /\ Track

RemoveConfig(name) ==
    /\ name \in DOMAIN fs_config
    /\ fs_config' = DictDel(fs_config, name)
    /\ call' = EnvCall
    /\ UNCHANGED <<loaded_models, configs, fs_artifact, installed,
                   CUDA_VISIBLE_DEVICES, next_id>>
    /\ Track

SetArtifact(name, s) ==
    /\ fs_artifact[name] # s
    /\ fs_artifact' = [fs_artifact EXCEPT ![name] = s]
    /\ call' = EnvCall
    /\ UNCHANGED <<loaded_models, configs, fs_config, installed,
                   CUDA_VISIBLE_DEVICES, next_id>>
    /\ Track

----------------------------------------------------------------------------

Init ==
    /\ loaded_models = <<>>
    /\ configs = <<>>
    /\ fs_config = <<>>
    /\ fs_artifact = [n \in Names |-> "missing"]
    /\ installed \in SUBSET Runtimes
    /\ CUDA_VISIBLE_DEVICES = "unset"
    /\ next_id = 1
    /\ call = Call("__init__", "", "ok", NoValue, <<>>)
    /\ history = [n \in Names |->
                    [status |-> "never", handle |-> NoValue, dropped |-> NoValue]]

\* The tensors the calls of Spec pass, and the value its networks compute
Inputs == {Filled(<<1, 1, 3>>, 5)}

Activations == {7}

Next ==
    \/ \E n \in Names, device \in Devices : LoadModel(n, device)
    \/ \E n \in Names, x \in Inputs, pre \in BOOLEAN, post \in BOOLEAN,
          v \in Activations : Predict(n, x, pre, post, v)
    \/ \E n \in Names, x \in Inputs : PreprocessInput(n, x)
    \/ \E n \in Names, y \in Inputs : PostprocessOutput(n, y)
    \/ \E n \in Names : UnloadModel(n)
    \/ \E n \in Names : GetModelInfo(n)
    \/ \E n \in Names, d \in Descriptors : WriteConfig(n, d)
    \/ \E n \in Names : RemoveConfig(n)
    \/ \E n \in Names, s \in ArtifactStates : SetArtifact(n, s)

Spec == Init /\ [][Next]_vars

----------------------------------------------------------------------------
(* SpecTensor: one TensorFlow model whose descriptor is any of             *)
(* TensorDescriptors, called with the tensors of TensorInputs.             *)

TensorDescriptors ==
    {Descriptor("tensorflow", TRUE, TRUE, i, o, nz, mean, std, t) :
        i \in {<<1, 1, 2, 3>>, <<1, 1, 1, 1>>, <<1, 1, 1, 2>>},
        o \in {<<1, 1, 2, 3>>, <<1, 2, 1, 1>>},
        nz \in BOOLEAN,
        mean \in {<<>>, <<0>>},
        std \in {<<>>, <<10>>},
        t \in {<<>>, <<5>>} }

TensorShapes ==
    {<<1, 2, 3>>, <<1, 1, 1>>, <<1, 1, 2>>, <<2, 1, 3>>,
     <<1, 1, 2, 3>>, <<1, 1, 1, 1>>, <<2, 1, 1, 2>>, <<1, 3>>}

\* The elements 0.3, 0.7, 0.5, 0.3, ... in row-major order
Ramp(shape) ==
    Tensor(shape, [i \in 1..Size(shape) |-> <<3, 7, 5>>[((i - 1) % 3) + 1]])

TensorInputs == {Ramp(shape) : shape \in TensorShapes}

TensorActivations == {3, 7}

InitTensor ==
    /\ loaded_models = <<>>
    /\ configs = <<>>
    /\ fs_config \in [Names -> TensorDescriptors]
    /\ fs_artifact \in [Names -> {"missing", "ok"}]
    /\ installed = {}
    /\ CUDA_VISIBLE_DEVICES = "unset"
    /\ next_id = 1
    /\ call = Call("__init__", "", "ok", NoValue, <<>>)
    /\ history = [n \in Names |->
                    [status |-> "never", handle |-> NoValue, dropped |-> NoValue]]

NextTensor ==
    \/ \E n \in Names : LoadModel(n, "cuda")
    \/ \E n \in Names, x \in TensorInputs, pre \in BOOLEAN, post \in BOOLEAN,
          v \in TensorActivations : Predict(n, x, pre, post, v)
    \/ \E n \in Names, x \in TensorInputs : PreprocessInput(n, x)
    \/ \E n \in Names, y \in TensorInputs : PostprocessOutput(n, y)

SpecTensor == InitTensor /\ [][NextTensor]_vars

----------------------------------------------------------------------------
(* SpecTwo: two models side by side, the files on disk fixed from the      *)
(* start, torch installed and onnxruntime not.                             *)

Names2 == {"eye-correction", "background-removal"}

\* The descriptor train_eye_correction.py writes: model_name, version,
\* input_shape, output_shape, training, trained_at
TrainedConfig ==
    Descriptor(NoKey, FALSE, TRUE, UnitShape, UnitShape, FALSE, <<>>, <<>>, <<>>)

Descriptors2 ==
    {Descriptor("tensorflow", TRUE, TRUE, UnitShape, UnitShape, FALSE, <<>>, <<>>, <<>>),
     Descriptor("tensorflow", TRUE, TRUE, UnitShape, UnitShape, TRUE, <<>>, <<>>, <<5>>),
     Descriptor("pytorch", TRUE, TRUE, UnitShape, UnitShape, FALSE, <<>>, <<>>, <<>>),
     Descriptor("onnx", TRUE, TRUE, UnitShape, UnitShape, FALSE, <<>>, <<>>, <<>>),
     Descriptor("unknown", TRUE, TRUE, UnitShape, UnitShape, FALSE, <<>>, <<>>, <<>>),
     TrainedConfig}

Init2 ==
    /\ loaded_models = <<>>
    /\ configs = <<>>
    /\ \E present \in SUBSET Names2 : fs_config \in [present -> Descriptors2]
    /\ fs_artifact \in [Names2 -> {"missing", "ok"}]
    /\ installed = {"torch"}
    /\ CUDA_VISIBLE_DEVICES = "unset"
    /\ next_id = 1
    /\ call = Call("__init__", "", "ok", NoValue, <<>>)
    /\ history = [n \in Names2 |->
                    [status |-> "never", handle |-> NoValue, dropped |-> NoValue]]

\* An image without the batch axis and the same image with it.
Inputs2 == Inputs \cup {Filled(UnitShape, 5)}

Next2 ==
    \/ \E n \in Names2, device \in Devices : LoadModel(n, device)
    \/ \E n \in Names2, x \in Inputs2, pre \in BOOLEAN, post \in BOOLEAN,
          v \in Activations : Predict(n, x, pre, post, v)
    \/ \E n \in Names2, x \in Inputs2 : PreprocessInput(n, x)
    \/ \E n \in Names2, y \in Inputs2 : PostprocessOutput(n, y)
    \/ \E n \in Names2 : UnloadModel(n)
    \/ \E n \in Names2 : GetModelInfo(n)

SpecTwo == Init2 /\ [][Next2]_vars

----------------------------------------------------------------------------
(* Properties *)

LoadStep(n) == call'.op = "load_model" /\ call'.name = n

NotLoaded == "ValueError: not loaded"

Adapters == {"adapter_tensorflow", "adapter_pytorch", "adapter_onnx"}

Took(c, step) == \E i \in DOMAIN c.steps : c.steps[i] = step

RanAdapter(c) == \E a \in Adapters : Took(c, a)

\* C1: a load_model of a name whose previous load_model returned, with no
\* unload_model since, returns the very handle the first call returned and
\* reads neither the configuration file nor the artifact.
C1_IdempotentLoad ==
    [][\A n \in Names :
        (history[n].status = "loaded" /\ LoadStep(n)) =>
            /\ call'.outcome = "ok"
            /\ call'.ret = history[n].handle
            /\ call'.steps = <<>>
            /\ UNCHANGED <<loaded_models, configs, next_id>>]_vars

\* A second load_model returned a cached model although its configuration file
\* is gone from the disk.
C1_Witness ==
    \E n \in Names, device \in Devices :
        /\ call = LoadCall(n, device, "ok", history[n].handle, <<>>)
        /\ call.ret.kind = "genuine"
        /\ n \notin DOMAIN fs_config

\* C2: every handle the cache holds is inference-ready, a genuine model or a
\* placeholder, never None.
C2_CachedHandlesReady ==
    \A n \in DOMAIN loaded_models :
        loaded_models[n].kind \in {"genuine", "placeholder"}

\* C3: a load_model that fails on an unrecognised framework leaves the handle
\* mapping and the descriptor mapping as they were.
C3_UnsupportedLeavesCache ==
    [][\A n \in Names :
        (LoadStep(n) /\ call'.outcome = "ValueError: Unsupported framework") =>
            /\ loaded_models' = loaded_models
            /\ configs' = configs]_vars

\* C4: from unload_model(x) on a loaded name until the next load_model(x)
\* that returns, x has no cache entry and get_model_info(x) is empty.
C4_UnloadRemovesEntry ==
    \A n \in Names :
        history[n].status = "unloaded" =>
            /\ n \notin DOMAIN loaded_models
            /\ n \notin DOMAIN configs
            /\ get_model_info(n) = EmptyDict

\* C5: a load_model that returns after an unload_model reads the configuration
\* file again, runs the adapter again, returns a handle that is not the one
\* cached before the unload and caches the descriptor now on disk.
C5_ReloadIsFresh ==
    [][\A n \in Names :
        (history[n].status = "unloaded" /\ LoadStep(n) /\ call'.outcome = "ok") =>
            /\ Took(call', "open_config")
            /\ RanAdapter(call')
            /\ call'.ret # history[n].dropped
            /\ loaded_models'[n] = call'.ret
            /\ configs'[n] = fs_config[n]]_vars

\* C6: predict fails with "not loaded" exactly for the names whose latest
\* load_model did not return or that were unloaded since.
C6_PredictNotLoadedIffNoEntry ==
    [][\A n \in Names :
        (call'.op = "predict" /\ call'.name = n) =>
            ((call'.outcome = NotLoaded) <=> (history[n].status # "loaded"))]_vars

\* C7: preprocess_input and postprocess_output fail with "not loaded" in
\* exactly the states in which predict does.
C7_StagesMirrorPredict ==
    \A n \in Names :
        \A x \in Inputs, v \in Activations :
            /\ (preprocess_input(n, x).outcome = NotLoaded) <=>
                    (PredictResult(n, x, TRUE, TRUE, v).outcome = NotLoaded)
            /\ (postprocess_output(n, x).outcome = NotLoaded) <=>
                    (PredictResult(n, x, TRUE, TRUE, v).outcome = NotLoaded)

\* C8: get_model_info raises nothing and changes no mapping; it returns the
\* cached descriptor of a cached name and the empty structure for a name no
\* load_model of which has returned.
C8_GetModelInfoObserves ==
    [][\A n \in Names :
        (call'.op = "get_model_info" /\ call'.name = n) =>
            /\ call'.outcome = "ok"
            /\ UNCHANGED <<loaded_models, configs>>
            /\ n \in DOMAIN loaded_models => call'.ret = configs[n]
            /\ history[n].status = "never" => call'.ret = EmptyDict]_vars

\* C9: load_model of an uncached name whose configuration file is absent
\* raises FileNotFoundError, runs no adapter and leaves the two mappings and
\* CUDA_VISIBLE_DEVICES as they were.
C9_ConfigurationNotFound ==
    [][\A n \in Names :
        (LoadStep(n) /\ n \notin DOMAIN loaded_models /\ n \notin DOMAIN fs_config) =>
            /\ call'.outcome = "FileNotFoundError"
            /\ ~RanAdapter(call')
            /\ UNCHANGED <<loaded_models, configs, CUDA_VISIBLE_DEVICES, next_id>>]_vars

\* A load_model failed on the absent file after an earlier load had left a
\* descriptor and the CPU-only setting behind.
C9_Witness ==
    \E n \in Names, device \in Devices :
        /\ call = LoadCall(n, device, "FileNotFoundError", NoValue,
                           <<"open_config">>)
        /\ n \in DOMAIN configs
        /\ n \notin DOMAIN fs_config
        /\ CUDA_VISIBLE_DEVICES = "-1"

\* C10: load_model of an uncached name whose descriptor is of the TensorFlow
\* kind (declared or by default) raises nothing and caches a genuine model or
\* a placeholder.
C10_GraphModelAlwaysServes ==
    [][\A n \in Names :
        (/\ LoadStep(n)
         /\ n \notin DOMAIN loaded_models
         /\ n \in DOMAIN fs_config
         /\ Framework(fs_config[n]) = "tensorflow") =>
            /\ call'.outcome = "ok"
            /\ call'.ret.kind \in {"genuine", "placeholder"}
            /\ n \in DOMAIN loaded_models'
            /\ loaded_models'[n] = call'.ret]_vars

\* C11: a load_model that reaches the checkpoint or the optimized-session
\* adapter raises ImportError when the adapter's runtime is not installed,
\* whatever the state of the artifact; with the runtime installed and the
\* artifact missing it raises nothing, builds no placeholder and returns None.
C11_NativeAdapters ==
    [][\A n \in Names :
        (/\ LoadStep(n)
         /\ n \notin DOMAIN loaded_models
         /\ n \in DOMAIN fs_config
         /\ Framework(fs_config[n]) \in {"pytorch", "onnx"}) =>
            LET runtime == IF Framework(fs_config[n]) = "pytorch" THEN "torch"
                           ELSE "onnxruntime" IN
            /\ runtime \notin installed => call'.outcome = "ImportError"
            /\ (runtime \in installed /\ fs_artifact[n] = "missing") =>
                    /\ call'.outcome = "ok"
                    /\ call'.ret = None
                    /\ ~Took(call', "placeholder")]_vars

PredictStep(n) == call'.op = "predict" /\ call'.name = n

\* C12: with a placeholder cached for a descriptor of input_shape [b,H,W,C]
\* and output_shape [b,H',W',C'], predict with both stages on an input of
\* shape (H,W,C) returns a tensor of shape (H',W',C').
C12_PlaceholderShapeContract ==
    [][\A n \in Names :
        (/\ PredictStep(n)
         /\ n \in DOMAIN loaded_models
         /\ loaded_models[n].kind = "placeholder"
         /\ call'.args.preprocess /\ call'.args.postprocess
         /\ call'.args.x.shape = Tail(configs[n].input_shape)) =>
            /\ call'.outcome = "ok"
            /\ call'.ret.shape = Tail(configs[n].output_shape)]_vars

UnloadStep(n) == call'.op = "unload_model" /\ call'.name = n

\* C13: a cached entry, handle and descriptor, survives every call that is
\* not unload_model of its own name, whether the call succeeds or fails; and
\* unload_model of a name without an entry raises nothing and changes neither
\* mapping.
C13_OnlyUnloadEvicts ==
    [][/\ \A n \in Names2 :
            (n \in DOMAIN loaded_models /\ ~UnloadStep(n)) =>
                /\ n \in DOMAIN loaded_models'
                /\ loaded_models'[n] = loaded_models[n]
                /\ n \in DOMAIN configs'
                /\ configs'[n] = configs[n]
       /\ \A m \in Names2 :
            (m \notin DOMAIN loaded_models /\ UnloadStep(m)) =>
                /\ call'.outcome = "ok"
                /\ UNCHANGED <<loaded_models, configs>>]_vars

\* One model is still cached, as load_model returned it, after the other one,
\* itself cached, failed a predict.
C13_Witness ==
    \E n \in Names2, m \in Names2 :
        /\ n # m
        /\ n \in DOMAIN loaded_models
        /\ m \in DOMAIN loaded_models
        /\ loaded_models[n] = history[n].handle
        /\ loaded_models[n].kind = "placeholder"
        /\ call.op = "predict" /\ call.name = m /\ call.outcome # "ok"

\* unload_model of a name that was never loaded, beside a cached model
C13_WitnessUnloadAbsent ==
    \E n \in Names2, m \in Names2 :
        /\ n # m
        /\ n \in DOMAIN loaded_models
        /\ history[m].status = "never"
        /\ call.op = "unload_model" /\ call.name = m

PostprocessStep(n) == call'.op = "postprocess_output" /\ call'.name = n

\* C14: postprocess_output under a descriptor with segmentation_threshold t
\* maps every element v to 1.0 when v > t and to 0.0 otherwise (v = t gives
\* 0.0); without the key it returns the elements as they are.
C14_ThresholdBinarization ==
    [][\A n \in Names :
        (PostprocessStep(n) /\ call'.outcome = "ok") =>
            LET y == call'.args.x
                t == configs[n].threshold IN
            /\ Len(call'.ret.data) = Len(y.data)
            /\ t # <<>> =>
                \A i \in 1..Len(y.data) :
                    call'.ret.data[i] = IF y.data[i] > t[1] THEN 10 ELSE 0
            /\ t = <<>> => call'.ret.data = y.data]_vars

\* postprocess_output turned 0.3, 0.7, 0.5 into 0, 1, 0 under threshold 0.5.
C14_Witness ==
    \E n \in Names :
        /\ call.op = "postprocess_output" /\ call.name = n /\ call.outcome = "ok"
        /\ configs[n].threshold = <<5>>
        /\ call.args.x.data = <<3, 7, 5>>
        /\ call.ret.data = <<0, 10, 0>>

PreprocessStep(n) == call'.op = "preprocess_input" /\ call'.name = n

\* The shape rule of batch insertion on one input, and on the result again.
BatchInserted(n, x, outcome, ret) ==
    /\ outcome = "ok"
    /\ Rank(x) = 3 => ret.shape = <<1>> \o x.shape
    /\ Rank(x) = 4 => ret.shape = x.shape
    /\ preprocess_input(n, ret).outcome = "ok"
    /\ preprocess_input(n, ret).tensor.shape = ret.shape

\* Normalization leaves the shape of x alone: it is off, or mean and std
\* (three elements each by default) have one element or one per channel.
KeepsChannels(config, x) ==
    \/ ~config.normalize
    \/ /\ Len(ShapeOr(config.mean, DefaultMean)) \in {1, x.shape[Rank(x)]}
       /\ Len(ShapeOr(config.std, DefaultStd)) \in {1, x.shape[Rank(x)]}

\* C15 as stated: for a loaded name, preprocess_input turns every
\* 3-dimensional input (H,W,C) into (1,H,W,C), keeps the shape of every
\* 4-dimensional input, and applied to its own result keeps the shape again.
C15_BatchInsertion_AsStated ==
    [][\A n \in Names :
        (PreprocessStep(n) /\ n \in DOMAIN loaded_models
            /\ Rank(call'.args.x) \in {3, 4}) =>
            BatchInserted(n, call'.args.x, call'.outcome, call'.ret)]_vars

\* C15: for a loaded name whose descriptor keeps normalization off, or whose
\* mean and std have one element or one per input channel, preprocess_input
\* turns every 3-dimensional input (H,W,C) into (1,H,W,C), keeps the shape of
\* every 4-dimensional input, and applied to its own result keeps the shape.
C15_BatchInsertion ==
    [][\A n \in Names :
        (PreprocessStep(n) /\ n \in DOMAIN loaded_models
            /\ Rank(call'.args.x) \in {3, 4}
            /\ KeepsChannels(configs[n], call'.args.x)) =>
            BatchInserted(n, call'.args.x, call'.outcome, call'.ret)]_vars

\* A normalized three-channel image of rank 3 came back with a batch axis.
C15_Witness ==
    \E n \in Names :
        /\ call.op = "preprocess_input" /\ call.name = n /\ call.outcome = "ok"
        /\ n \in DOMAIN loaded_models
        /\ configs[n].normalize /\ configs[n].mean = <<>>
        /\ call.args.x.shape = <<1, 2, 3>>
        /\ call.ret.shape = <<1, 1, 2, 3>>
        /\ call.ret.data # call.args.x.data

\* C16 as stated: for a loaded name, postprocess_output removes the leading
\* dimension of every output whose leading dimension is 1, whatever its rank,
\* and keeps the shape when the leading dimension is not 1.
C16_BatchStripping_AsStated ==
    [][\A n \in Names :
        (PostprocessStep(n) /\ n \in DOMAIN loaded_models) =>
            LET y == call'.args.x IN
            /\ call'.outcome = "ok"
            /\ y.shape[1] = 1 => call'.ret.shape = Tail(y.shape)
            /\ y.shape[1] # 1 => call'.ret.shape = y.shape]_vars

\* C16: for a loaded name, postprocess_output removes the leading dimension of
\* every 4-dimensional output whose leading dimension is 1, and keeps the shape
\* of every other output: leading dimension not 1, or rank other than 4.
C16_BatchStripping ==
    [][\A n \in Names :
        (PostprocessStep(n) /\ n \in DOMAIN loaded_models) =>
            LET y == call'.args.x IN
            /\ call'.outcome = "ok"
            /\ (Rank(y) = 4 /\ y.shape[1] = 1) =>
                call'.ret.shape = Tail(y.shape)
            /\ (Rank(y) # 4 \/ y.shape[1] # 1) => call'.ret.shape = y.shape]_vars

\* postprocess_output took the batch axis off a (1,1,2,3) output.
C16_Witness ==
    \E n \in Names :
        /\ call.op = "postprocess_output" /\ call.name = n /\ call.outcome = "ok"
        /\ n \in DOMAIN loaded_models
        /\ call.args.x.shape = <<1, 1, 2, 3>>
        /\ call.ret.shape = <<1, 2, 3>>

\* C17: load_model on a model directory holding the model_config.json the
\* training script writes (no framework key, no model_files key) takes the
\* TensorFlow adapter by default and returns a handle without raising.
C17_TrainedConfigLoads ==
    [][\A n \in Names :
        (/\ LoadStep(n)
         /\ n \notin DOMAIN loaded_models
         /\ n \in DOMAIN fs_config
         /\ fs_config[n] = TrainedConfig) =>
            /\ Took(call', "adapter_tensorflow")
            /\ call'.outcome = "ok"
            /\ call'.ret # None]_vars

\* C18: once CUDA_VISIBLE_DEVICES is "-1" no operation clears it, so a later
\* load of another model on "cuda" runs under the restriction; the variable
\* changes only in an uncached load_model that reaches the TensorFlow adapter
\* with a device other than "cuda"; loads that reach the PyTorch or the ONNX
\* adapter, cached loads and loads that fail before the dispatch leave it.
C18_DeviceRestrictionSticks ==
    [][/\ CUDA_VISIBLE_DEVICES = "-1" => CUDA_VISIBLE_DEVICES' = "-1"
       /\ CUDA_VISIBLE_DEVICES' # CUDA_VISIBLE_DEVICES =>
            \E n \in Names2 :
                /\ LoadStep(n)
                /\ n \notin DOMAIN loaded_models
                /\ Took(call', "adapter_tensorflow")
                /\ call'.args.device # "cuda"
                /\ CUDA_VISIBLE_DEVICES' = "-1"
       /\ \A n \in Names2 :
            (/\ LoadStep(n)
             /\ \/ n \in DOMAIN loaded_models
                \/ ~RanAdapter(call')
                \/ Took(call', "adapter_pytorch")
                \/ Took(call', "adapter_onnx")) =>
                UNCHANGED CUDA_VISIBLE_DEVICES]_vars

\* With one TensorFlow model cached, an uncached load of the other model
\* asked for "cuda", reached the TensorFlow adapter and left the restriction.
C18_Witness ==
    \E n, m \in Names2 :
        /\ n # m
        /\ n \in DOMAIN loaded_models /\ loaded_models[n] # None
        /\ loaded_models[n].framework = "tensorflow"
        /\ call.op = "load_model" /\ call.name = m /\ call.outcome = "ok"
        /\ call.args.device = "cuda"
        /\ Took(call, "adapter_tensorflow")
        /\ CUDA_VISIBLE_DEVICES = "-1"

\* C19: a predict that returns has invoked the cached handle exactly once,
\* with preprocess_input before the invocation iff preprocess is set and
\* postprocess_output after it iff postprocess is set, both under the
\* descriptor cached for the same name; with both flags off the handle is fed
\* the caller's input and its raw output is what predict returns.
C19_PredictPipelineOrder ==
    [][\A n \in Names2 :
        (PredictStep(n) /\ call'.outcome = "ok") =>
            LET a == call'.args IN
            /\ call'.steps = (IF a.preprocess THEN <<"preprocess">> ELSE <<>>)
                              \o <<"invoke">>
                              \o (IF a.postprocess THEN <<"postprocess">>
                                  ELSE <<>>)
            /\ a.preprocess => call'.fed = preprocess_input(n, a.x).tensor
            /\ ~a.preprocess => call'.fed = a.x
            /\ call'.raw.shape =
                    <<call'.fed.shape[1]>> \o loaded_models[n].output_shape
            /\ a.postprocess =>
                    call'.ret = postprocess_output(n, call'.raw).tensor
            /\ ~a.postprocess => call'.ret = call'.raw]_vars

\* With two models cached under different descriptors, a predict with both
\* stages ran on the one that normalizes and binarizes.
C19_Witness ==
    \E n, m \in Names2 :
        /\ n # m
        /\ n \in DOMAIN loaded_models /\ m \in DOMAIN loaded_models
        /\ configs[n].normalize /\ ~configs[m].normalize
        /\ configs[n].threshold # <<>> /\ configs[m].threshold = <<>>
        /\ call.op = "predict" /\ call.name = n /\ call.outcome = "ok"
        /\ call.args.preprocess /\ call.args.postprocess
        /\ call.steps = <<"preprocess", "invoke", "postprocess">>
        /\ call.fed # call.args.x
        /\ call.ret # call.raw

\* A predict with both flags off returned the raw output of the handle.
C19_WitnessBare ==
    \E n \in Names2 :
        /\ call.op = "predict" /\ call.name = n /\ call.outcome = "ok"
        /\ ~call.args.preprocess /\ ~call.args.postprocess
        /\ call.steps = <<"invoke">>
        /\ call.fed = call.args.x
        /\ call.ret = call.raw

\* C20: in every reachable state every name with an entry in loaded_models
\* has an entry in configs.
C20_HandleHasDescriptor == DOMAIN loaded_models \subseteq DOMAIN configs

\* A cached load returned the handle after the configuration file was removed
\* from the disk: the handle and its descriptor are both still held.
C20_Witness ==
    \E n \in Names :
        /\ n \in DOMAIN loaded_models /\ n \in DOMAIN configs
        /\ n \notin DOMAIN fs_config
        /\ call.op = "load_model" /\ call.name = n /\ call.outcome = "ok"
        /\ history[n].status = "loaded"

\* The runtime the adapter of a PyTorch or an ONNX descriptor imports
RuntimeOf(config) ==
    IF Framework(config) = "pytorch" THEN "torch" ELSE "onnxruntime"

\* C21: after a load_model of n has returned None, with no unload_model of n
\* since, every load_model of n returns None from the cache, reading neither
\* the configuration nor the artifact, whatever is on the disk by then; after
\* an unload_model of n the name loads again: with the runtime installed and
\* the artifact in place, load_model reads the configuration and returns a
\* handle.
C21_NullLoadIsSticky ==
    [][\A n \in Names :
        /\ (/\ LoadStep(n)
            /\ history[n].status = "loaded"
            /\ history[n].handle = None) =>
                /\ call'.outcome = "ok"
                /\ call'.ret = None
                /\ call'.steps = <<>>
                /\ UNCHANGED <<loaded_models, configs>>
        /\ (/\ LoadStep(n)
            /\ history[n].status = "unloaded"
            /\ history[n].dropped = None
            /\ n \in DOMAIN fs_config
            /\ Framework(fs_config[n]) \in {"pytorch", "onnx"}
            /\ fs_config[n].model_files
            /\ RuntimeOf(fs_config[n]) \in installed
            /\ fs_artifact[n] = "ok") =>
                /\ call'.outcome = "ok"
                /\ call'.ret.kind = "genuine"
                /\ Took(call', "open_config")
                /\ Took(call', "load_artifact")]_vars

\* A load_model returned the cached None although the runtime is installed
\* and the artifact has appeared on the disk since.
C21_Witness ==
    \E n \in Names, device \in Devices :
        /\ call = LoadCall(n, device, "ok", None, <<>>)
        /\ history[n].status = "loaded" /\ history[n].handle = None
        /\ n \in DOMAIN loaded_models /\ loaded_models[n] = None
        /\ n \in DOMAIN fs_config
        /\ Framework(fs_config[n]) \in {"pytorch", "onnx"}
        /\ fs_config[n].model_files
        /\ RuntimeOf(fs_config[n]) \in installed
        /\ fs_artifact[n] = "ok"

====
